---- MODULE Spec2Model ----
(***************************************************************************)
(* Model of the encrypted-transfer server: the RSA key pair generated at   *)
(* process start, GET /api/public-key, and the POST /api/upload handler    *)
(* (field check, base64 decode, RSA-OAEP unwrap, GCM tag split, AES-GCM    *)
(* decrypt, path.basename, fs.writeFileSync), in its two builds: the       *)
(* TypeScript backend (server.ts) and the JavaScript image server          *)
(* (server.js).  The browser side that builds payloads is modelled from    *)
(* the README's end-to-end flow.                                           *)
(*                                                                         *)
(* Cryptography is ideal: an RSA-OAEP block decrypts only if it is exactly *)
(* a block produced for the matching key pair, and a GCM tag verifies only *)
(* if it is a prefix of the tag of exactly that key, nonce and ciphertext. *)
(* Buffers are sequences of symbols; a symbol is a byte 0..MaxByte or, in  *)
(* a tag or an RSA block, a fingerprint (an integer above MaxByte).        *)
(***************************************************************************)
EXTENDS Integers, Sequences, FiniteSets, TLC

(***************************************************************************)
(* Bounds of the model.                                                    *)
(***************************************************************************)
MaxLen == 1        \* longest plaintext file, in bytes
MaxByte == 1       \* a byte is 0..MaxByte
NumKeys == 2       \* AES session keys the clients can draw
NumNonces == 1     \* GCM nonces the clients can draw
MaxRestarts == 2   \* process restarts in one behaviour
WrapLen == 3       \* modelled length of an RSA-OAEP block (256 in the program)

(***************************************************************************)
(* Program constants.                                                      *)
(***************************************************************************)
GCM_TAG_LENGTH == 16
IV_LENGTH == 12

Base == MaxByte + 1
Byte == 0..MaxByte

Absent == <<-1>>     \* a field that is not in the JSON body (undefined)
BadChar == -2        \* a character outside the base64 alphabet, e.g. "!"
PadChar == -3        \* the base64 padding character "="

RECURSIVE Pow(_, _)
Pow(b, n) == IF n = 0 THEN 1 ELSE b * Pow(b, n - 1)

\* Horner code of a byte sequence, with a leading 1 so that the length counts.
RECURSIVE SeqCodeTo(_, _)
SeqCodeTo(s, n) == IF n = 0 THEN 1 ELSE SeqCodeTo(s, n - 1) * Base + s[n]

SeqCode(s) == SeqCodeTo(s, Len(s))

IsBytes(s) == \A i \in 1..Len(s) : s[i] \in Byte

RECURSIVE SeqsUpTo(_, _)
SeqsUpTo(S, n) ==
  IF n = 0 THEN {<<>>}
  ELSE LET shorter == SeqsUpTo(S, n - 1)
       IN  shorter \cup {Append(s, x) : s \in {t \in shorter : Len(t) = n - 1}, x \in S}

Plaintexts == SeqsUpTo(Byte, MaxLen)
AesKeys == 1..NumKeys

\* The n-th nonce a client draws: IV_LENGTH bytes, the digits of n - 1.
Nonce(n) == [i \in 1..IV_LENGTH |-> ((n - 1) \div Pow(Base, i - 1)) % Base]
Nonces == {Nonce(n) : n \in 1..NumNonces}

(***************************************************************************)
(* Buffer.subarray(start, end): negative indices count from the end, and   *)
(* both are clamped to the buffer.                                         *)
(***************************************************************************)
ClampIndex(i, n) == IF i < 0 THEN (IF n + i < 0 THEN 0 ELSE n + i) ELSE (IF i > n THEN n ELSE i)

subarray(buf, start, end) ==
  LET s == ClampIndex(start, Len(buf))
      e == ClampIndex(end, Len(buf))
  IN  IF e <= s THEN <<>> ELSE SubSeq(buf, s + 1, e)

(***************************************************************************)
(* Base64.  A wire string is a sequence of characters: a data character    *)
(* (carrying one symbol), BadChar or PadChar.  The encoder pads to a       *)
(* multiple of three; Buffer.from(s, "base64") never throws: it skips      *)
(* characters outside the alphabet and stops at the first padding.         *)
(***************************************************************************)
RECURSIVE Pad(_)
Pad(n) == IF n = 0 THEN <<>> ELSE <<PadChar>> \o Pad(n - 1)

btoa(buf) == buf \o Pad((3 - (Len(buf) % 3)) % 3)

IsBase64Char(c) == c # BadChar

BufferFromBase64(s) ==
  LET pads == {i \in 1..Len(s) : s[i] = PadChar}
      stop == IF pads = {} THEN Len(s) + 1 ELSE CHOOSE i \in pads : \A j \in pads : i <= j
  IN  SelectSeq(SubSeq(s, 1, stop - 1), IsBase64Char)

WellFormedBase64(s) ==
  /\ Len(s) % 3 = 0
  /\ \A i \in 1..Len(s) : s[i] # BadChar
  /\ \A i \in 1..Len(s) : s[i] = PadChar => (i > Len(s) - 2 /\ \A j \in i..Len(s) : s[j] = PadChar)

(***************************************************************************)
(* RSA-OAEP, ideal.  A key is a half of the pair the process generated in  *)
(* a given lifetime.  The block for (pair, key) is WrapLen copies of one   *)
(* fingerprint; no other buffer decrypts.                                  *)
(***************************************************************************)
generateKeyPairSync(n) ==
  [publicKey |-> [half |-> "public", id |-> n], privateKey |-> [half |-> "private", id |-> n]]

WrapCode(id, K) == Base + id * (NumKeys + 1) + K

publicEncrypt(pub, K) == [i \in 1..WrapLen |-> WrapCode(pub.id, K)]

privateDecrypt(priv, buf) ==
  IF \E K \in AesKeys : buf = publicEncrypt([half |-> "public", id |-> priv.id], K)
  THEN [ok |-> TRUE,
        key |-> CHOOSE K \in AesKeys : buf = publicEncrypt([half |-> "public", id |-> priv.id], K),
        message |-> ""]
  ELSE [ok |-> FALSE, key |-> 0, message |-> "error:02000079:rsa routines::oaep decoding error"]

(***************************************************************************)
(* AES-256-GCM, ideal.  Counter-mode keystream over bytes; the tag is      *)
(* GCM_TAG_LENGTH copies of a fingerprint that is injective in (key,       *)
(* nonce, ciphertext).  WebCrypto appends the tag to the ciphertext.       *)
(***************************************************************************)
\* The keystream byte at position i, for key K and the nonce with code n:
\* never 0, so that a ciphertext byte differs from its plaintext byte.
KeyStream(K, n, i) == 1 + ((K + n + i) % MaxByte)

GcmCipher(F, K, N) ==
  LET n == SeqCode(N) IN [i \in 1..Len(F) |-> (F[i] + KeyStream(K, n, i)) % Base]

Mac(K, N, ct) == Base + (SeqCode(N) * (NumKeys + 1) + K) * Pow(Base, MaxLen + 1) + SeqCode(ct)

GcmTag(K, N, ct) == LET mac == Mac(K, N, ct) IN [j \in 1..GCM_TAG_LENGTH |-> mac]

subtleEncrypt(F, K, N) == LET ct == GcmCipher(F, K, N) IN ct \o GcmTag(K, N, ct)

\* Variant: the ciphertext itself is handed on as if it were the plaintext.
decipherUpdate_Raw(K, N, ct) == ct

\* decipher.update(ciphertext): the plaintext of the stream, not yet verified.
decipherUpdate(K, N, ct) ==
  LET n == SeqCode(N) IN [i \in 1..Len(ct) |-> (ct[i] + Base - KeyStream(K, n, i)) % Base]

\* Tag lengths decipher.setAuthTag accepts for GCM when createDecipheriv was
\* given no authTagLength: every length GCM allows on the Node releases that
\* only deprecate short tags, the default length alone on those that reject
\* them.
TagLengthPolicies == {{4, 8, 12, 13, 14, 15, 16}, {GCM_TAG_LENGTH}}

\* Variant: final() without a tag comparison.
decipherFinal_Unchecked(K, N, ct, tag) == TRUE

\* decipher.final(): the tag given is compared, over its own length, with the
\* tag of (key, nonce, ciphertext).
decipherFinal(K, N, ct, tag) ==
  /\ IsBytes(ct)
  /\ Len(ct) <= MaxLen
  /\ IsBytes(N)
  /\ Len(N) <= IV_LENGTH
  /\ LET mac == Mac(K, N, ct) IN \A j \in 1..Len(tag) : tag[j] = mac

(***************************************************************************)
(* Paths (POSIX).  A filename is a sequence of one-character strings, a    *)
(* path segment likewise, and a normalised path is a sequence of segments  *)
(* from the root.                                                          *)
(***************************************************************************)
NoName == <<"undefined">>    \* the filename field is not in the JSON body

RECURSIVE StripTrailingSlashes(_)
StripTrailingSlashes(s) ==
  IF s # <<>> /\ s[Len(s)] = "/" THEN StripTrailingSlashes(SubSeq(s, 1, Len(s) - 1)) ELSE s

RECURSIVE AfterLastSlash(_)
AfterLastSlash(s) ==
  IF s = <<>> \/ s[Len(s)] = "/" THEN <<>>
  ELSE Append(AfterLastSlash(SubSeq(s, 1, Len(s) - 1)), s[Len(s)])

\* Variant: the filename is used as given.
basename_AsGiven(p) == p

\* path.basename(p): trailing separators are dropped, then the part after the
\* last separator is returned.
basename(p) == AfterLastSlash(StripTrailingSlashes(p))

\* The segments of a string, split at "/".
RECURSIVE Segments(_)
Segments(s) ==
  IF s = <<>> THEN << <<>> >>
  ELSE LET init == Segments(SubSeq(s, 1, Len(s) - 1))
           c == s[Len(s)]
       IN  IF c = "/" THEN Append(init, <<>>)
           ELSE [init EXCEPT ![Len(init)] = Append(@, c)]

\* path.normalize applied to dir followed by segments: empty and "." segments
\* are dropped, ".." removes the segment before it.
RECURSIVE Normalize(_, _)
Normalize(dir, segs) ==
  IF segs = <<>> THEN dir
  ELSE LET g == Head(segs)
       IN  IF g = <<>> \/ g = <<".">> THEN Normalize(dir, Tail(segs))
           ELSE IF g = <<".", ".">>
                THEN Normalize(IF dir = <<>> THEN <<>> ELSE SubSeq(dir, 1, Len(dir) - 1), Tail(segs))
                ELSE Normalize(Append(dir, g), Tail(segs))

\* path.join(dir, name) for an absolute, normalised dir.
pathJoin(dir, name) == Normalize(dir, Segments(name))

uploadsDir == << <<"a", "p", "p">>, <<"u", "p", "l", "o", "a", "d", "s">> >>

\* The directories of the machine: the uploads directory (created at startup),
\* its ancestors, and /etc.
Directories == {<<>>, << <<"a", "p", "p">> >>, uploadsDir, << <<"e", "t", "c">> >>}

Parent(path) == SubSeq(path, 1, Len(path) - 1)

\* fs.writeFileSync(path, data) on the file map fsFiles: [ok, files, message].
writeFileSync(fsFiles, path, data) ==
  IF path \in Directories
  THEN [ok |-> FALSE, files |-> fsFiles, message |-> "EISDIR: illegal operation on a directory, open"]
  ELSE IF Parent(path) \notin Directories
  THEN [ok |-> FALSE, files |-> fsFiles, message |-> "ENOENT: no such file or directory, open"]
  ELSE [ok |-> TRUE,
        files |-> [q \in (DOMAIN fsFiles) \cup {path} |-> IF q = path THEN data ELSE fsFiles[q]],
        message |-> ""]

(***************************************************************************)
(* Responses and the upload handler.                                       *)
(***************************************************************************)
NoResponse ==
  [status |-> 0, error |-> "", detail |-> "", success |-> FALSE,
   filename |-> <<>>, decryptedBytes |-> 0, publicKey |-> 0]

\* res.json({ publicKey })
PublicKeyResponse(pub) == [NoResponse EXCEPT !.status = 200, !.publicKey = pub.id]

\* res.status(400).json({ error })
ClientError(msg) == [NoResponse EXCEPT !.status = 400, !.error = msg]

\* The catch block: res.status(500).json({ error: "Decryption failed.", detail: err.message })
CatchResponse(msg) == [NoResponse EXCEPT !.status = 500, !.error = "Decryption failed.", !.detail = msg]

\* res.json({ success: true, filename: safeFilename, decryptedBytes })
SuccessResponse(name, n) ==
  [NoResponse EXCEPT !.status = 200, !.success = TRUE, !.filename = name, !.decryptedBytes = n]

allowedMimeTypes == {"image/jpeg", "image/png", "image/gif", "image/webp", "image/avif"}

\* !x for a string field of the JSON body: undefined and "" are falsy.
Falsy(field) == field = Absent \/ field = <<>>
FalsyName(name) == name = NoName \/ name = <<>>

Outcome(resp, fsFiles, stage, privId) ==
  [response |-> resp, files |-> fsFiles, stage |-> stage, privateKeyUsed |-> privId]

\* The handler is one function; it is split here at the values it computes, so
\* that each is computed once and handed on.

\* Step 5, end: the result of fs.writeFileSync decides between the success
\* response and the catch block.
respond(fsFiles, priv, safeFilename, decryptedData, written) ==
  IF ~written.ok
  THEN Outcome(CatchResponse(written.message), fsFiles, "writeFileSync", priv.id)
  ELSE Outcome(SuccessResponse(safeFilename, Len(decryptedData)), written.files, "done", priv.id)

\* Step 5: outputPath = path.join(uploadsDir, safeFilename); fs.writeFileSync.
saveDecrypted(fsFiles, priv, safeFilename, decryptedData) ==
  respond(fsFiles, priv, safeFilename, decryptedData,
          writeFileSync(fsFiles, pathJoin(uploadsDir, safeFilename), decryptedData))

\* Variant: the output of update() is written before final() verifies the tag.
decipher_WriteFirst(body, fsFiles, priv, aesKeyBuf, ivBuf, ciphertext, authTag, tagLengths) ==
  IF ivBuf = <<>>
  THEN Outcome(CatchResponse("Invalid initialization vector"), fsFiles,
               "createDecipheriv", priv.id)
  ELSE IF Len(authTag) \notin tagLengths
  THEN Outcome(CatchResponse("Invalid authentication tag length"), fsFiles,
               "setAuthTag", priv.id)
  ELSE IF ~decipherFinal(aesKeyBuf, ivBuf, ciphertext, authTag)
  THEN Outcome(CatchResponse("Unsupported state or unable to authenticate data"),
               saveDecrypted(fsFiles, priv, basename(body.filename),
                             decipherUpdate(aesKeyBuf, ivBuf, ciphertext)).files,
               "final", priv.id)
  ELSE saveDecrypted(fsFiles, priv, basename(body.filename),
                     decipherUpdate(aesKeyBuf, ivBuf, ciphertext))

\* Step 4: createDecipheriv, setAuthTag, update, final; then
\* safeFilename = path.basename(filename).
decipher(body, fsFiles, priv, aesKeyBuf, ivBuf, ciphertext, authTag, tagLengths) ==
  IF ivBuf = <<>>
  THEN Outcome(CatchResponse("Invalid initialization vector"), fsFiles,
               "createDecipheriv", priv.id)
  ELSE IF Len(authTag) \notin tagLengths
  THEN Outcome(CatchResponse("Invalid authentication tag length"), fsFiles,
               "setAuthTag", priv.id)
  ELSE IF ~decipherFinal(aesKeyBuf, ivBuf, ciphertext, authTag)
  THEN Outcome(CatchResponse("Unsupported state or unable to authenticate data"), fsFiles,
               "final", priv.id)
  ELSE saveDecrypted(fsFiles, priv, basename(body.filename),
                     decipherUpdate(aesKeyBuf, ivBuf, ciphertext))

\* Step 2, end, and step 3: a failed privateDecrypt goes to the catch block;
\* otherwise the last GCM_TAG_LENGTH bytes are split off as the tag.
splitTag(body, fsFiles, priv, unwrapped, encryptedFileBuf, ivBuf, tagLengths) ==
  IF ~unwrapped.ok
  THEN Outcome(CatchResponse(unwrapped.message), fsFiles, "privateDecrypt", priv.id)
  ELSE decipher(body, fsFiles, priv, unwrapped.key, ivBuf,
                subarray(encryptedFileBuf, 0, Len(encryptedFileBuf) - GCM_TAG_LENGTH),
                subarray(encryptedFileBuf, Len(encryptedFileBuf) - GCM_TAG_LENGTH,
                         Len(encryptedFileBuf)),
                tagLengths)

\* Variant: the field check leaves out iv.
upload_NoIvCheck(body, fsFiles, priv, checksMime, tagLengths) ==
  IF Falsy(body.encryptedAesKey) \/ Falsy(body.encryptedFile) \/ FalsyName(body.filename)
  THEN Outcome(ClientError("Missing required fields."), fsFiles, "fields", 0)
  ELSE IF checksMime /\ body.mimeType # "" /\ body.mimeType \notin allowedMimeTypes
  THEN Outcome(ClientError("Only image files are accepted."), fsFiles, "mimeType", 0)
  ELSE splitTag(body, fsFiles, priv,
                privateDecrypt(priv, BufferFromBase64(body.encryptedAesKey)),
                BufferFromBase64(body.encryptedFile), BufferFromBase64(body.iv), tagLengths)

\* app.post("/api/upload"): the whole handler.  checksMime is TRUE in the
\* JavaScript build, which also validates mimeType; tagLengths is the tag
\* length policy of the Node release.
upload(body, fsFiles, priv, checksMime, tagLengths) ==
  IF Falsy(body.encryptedAesKey) \/ Falsy(body.encryptedFile) \/ Falsy(body.iv)
       \/ FalsyName(body.filename)
  THEN Outcome(ClientError("Missing required fields."), fsFiles, "fields", 0)
  ELSE IF checksMime /\ body.mimeType # "" /\ body.mimeType \notin allowedMimeTypes
  THEN Outcome(ClientError("Only image files are accepted."), fsFiles, "mimeType", 0)
  ELSE splitTag(body, fsFiles, priv,
                privateDecrypt(priv, BufferFromBase64(body.encryptedAesKey)),
                BufferFromBase64(body.encryptedFile), BufferFromBase64(body.iv), tagLengths)

(***************************************************************************)
(* The browser side (README, "End-to-End Flow"): a payload is a file       *)
(* encrypted under a fresh AES key and nonce, with the key wrapped under a *)
(* public key the server has served.                                       *)
(***************************************************************************)
NoPayload == [file |-> <<>>, key |-> 0, nonce |-> <<>>, pubId |-> 0]

Payloads(maxPub) ==
  [file : Plaintexts, key : AesKeys, nonce : Nonces, pubId : 1..maxPub]

\* The JSON body the browser posts for payload p.
HonestBody(p, name, mime) ==
  [encryptedAesKey |-> btoa(publicEncrypt([half |-> "public", id |-> p.pubId], p.key)),
   encryptedFile |-> btoa(subtleEncrypt(p.file, p.key, p.nonce)),
   iv |-> btoa(p.nonce),
   filename |-> name,
   mimeType |-> mime]

BinaryFields == {"encryptedAesKey", "encryptedFile", "iv"}

NoMutation == [kind |-> "none", field |-> "", pos |-> 0, val |-> 0]

\* What the network or a dishonest client can do to an honest body.
Mutations ==
  {NoMutation}
  \cup {[kind |-> "flip", field |-> f, pos |-> i, val |-> v] :
          f \in BinaryFields, i \in 1..(GCM_TAG_LENGTH + MaxLen), v \in Byte}
  \cup {[kind |-> k, field |-> f, pos |-> 0, val |-> 0] :
          k \in {"absent", "empty"}, f \in BinaryFields \cup {"filename"}}
  \cup {[kind |-> "truncate", field |-> "encryptedFile", pos |-> n, val |-> 0] :
          n \in 0..(GCM_TAG_LENGTH - 1)}
  \cup {[kind |-> k, field |-> f, pos |-> 0, val |-> 0] :
          k \in {"insertBadChar", "replaceByBadChar", "onlyBadChar"}, f \in BinaryFields}

Applicable(body, m) ==
  m.kind = "flip" =>
    /\ m.pos <= Len(BufferFromBase64(body[m.field]))
    /\ m.val # BufferFromBase64(body[m.field])[m.pos]

Mutate(body, m) ==
  IF m.kind = "flip"
  THEN [body EXCEPT ![m.field] = btoa([BufferFromBase64(@) EXCEPT ![m.pos] = m.val])]
  ELSE IF m.kind = "absent"
  THEN [body EXCEPT ![m.field] = IF m.field = "filename" THEN NoName ELSE Absent]
  ELSE IF m.kind = "empty"
  THEN [body EXCEPT ![m.field] = <<>>]
  ELSE IF m.kind = "truncate"
  THEN [body EXCEPT ![m.field] = btoa(SubSeq(BufferFromBase64(@), 1, m.pos))]
  ELSE IF m.kind = "insertBadChar"
  THEN [body EXCEPT ![m.field] = <<BadChar>> \o @]
  ELSE IF m.kind = "replaceByBadChar"
  THEN [body EXCEPT ![m.field] = <<BadChar>> \o Tail(@)]
  ELSE IF m.kind = "onlyBadChar"
  THEN [body EXCEPT ![m.field] = <<BadChar>>]
  ELSE body

TRAVERSAL == <<".", ".", "/", ".", ".", "/", "e", "t", "c", "/", "p", "a", "s", "s", "w", "d">>
ABSOLUTE == <<"/", "e", "t", "c", "/", "p", "a", "s", "s", "w", "d">>
TRAILING == <<"p", "a", "s", "s", "w", "d", "/">>
PASSWD == <<"p", "a", "s", "s", "w", "d">>

Filenames == {PASSWD, TRAVERSAL, ABSOLUTE, TRAILING, <<".">>, <<".", ".">>, <<"/">>}

\* The mimeType field: absent, on the allow-list, off it.  The TypeScript
\* build does not read the field.
MimeTypes(b) == IF b = "js" THEN {"", "image/png", "text/plain"} ELSE {""}

(***************************************************************************)
(* State.                                                                  *)
(***************************************************************************)
VARIABLES
  build,       \* "ts" (server.ts) or "js" (server.js)
  lifetime,    \* number of the running process, from 1
  publicKey,   \* the module-level constants of the running process
  privateKey,
  files,       \* the files on disk: normalised path -> contents
  inflight,    \* the payload a browser has built and not yet posted
  sent,        \* the request answered last: payload, mutation, filename, mimeType,
               \* and the files as the request found them
  response,    \* the response to the request answered last
  trace        \* where the upload handler returned, and the private key it used

vars == <<build, lifetime, publicKey, privateKey, files, inflight, sent, response, trace>>

NoSent ==
  [payload |-> NoPayload, mutation |-> NoMutation, filename |-> <<>>, mimeType |-> "",
   filesBefore |-> <<>>]

\* The JSON body of the request answered last.
BodyOf(r) == Mutate(HonestBody(r.payload, r.filename, r.mimeType), r.mutation)

Idle == [stage |-> "idle", privateKeyUsed |-> 0]

Init ==
  /\ build \in {"ts", "js"}
  /\ lifetime = 1
  /\ publicKey = generateKeyPairSync(1).publicKey
  /\ privateKey = generateKeyPairSync(1).privateKey
  /\ files = <<>>
  /\ inflight = NoPayload
  /\ sent = NoSent
  /\ response = NoResponse
  /\ trace = Idle

\* Variant: the key pair is kept across the restart.
Restart_KeepKeys ==
  /\ lifetime <= MaxRestarts
  /\ lifetime' = lifetime + 1
  /\ sent' = NoSent
  /\ response' = NoResponse
  /\ trace' = Idle
  /\ UNCHANGED <<build, publicKey, privateKey, files, inflight>>

\* The process exits and is started again: a new key pair, the same disk.
Restart ==
  /\ lifetime <= MaxRestarts
  /\ lifetime' = lifetime + 1
  /\ publicKey' = generateKeyPairSync(lifetime + 1).publicKey
  /\ privateKey' = generateKeyPairSync(lifetime + 1).privateKey
  /\ sent' = NoSent
  /\ response' = NoResponse
  /\ trace' = Idle
  /\ UNCHANGED <<build, files, inflight>>

\* Variant: every GET generates the key pair anew.
GetPublicKey_Regenerate ==
  /\ publicKey.id <= MaxRestarts
  /\ publicKey' = generateKeyPairSync(publicKey.id + 1).publicKey
  /\ privateKey' = generateKeyPairSync(publicKey.id + 1).privateKey
  /\ response' = PublicKeyResponse(publicKey')
  /\ sent' = NoSent
  /\ trace' = [stage |-> "public-key", privateKeyUsed |-> 0]
  /\ UNCHANGED <<build, lifetime, files, inflight>>

\* app.get("/api/public-key")
GetPublicKey ==
  /\ response' = PublicKeyResponse(publicKey)
  /\ sent' = NoSent
  /\ trace' = [stage |-> "public-key", privateKeyUsed |-> 0]
  /\ UNCHANGED <<build, lifetime, publicKey, privateKey, files, inflight>>

\* The browser takes the response off the connection.
ReadResponse ==
  /\ trace # Idle
  /\ sent' = NoSent
  /\ response' = NoResponse
  /\ trace' = Idle
  /\ UNCHANGED <<build, lifetime, publicKey, privateKey, files, inflight>>

\* A browser with no exchange open encrypts a file for a public key fetched
\* in this or an earlier lifetime of the server.
ClientEncrypt ==
  /\ inflight = NoPayload
  /\ trace = Idle
  /\ \E p \in Payloads(lifetime) : inflight' = p
  /\ UNCHANGED <<build, lifetime, publicKey, privateKey, files, sent, response, trace>>

\* app.post("/api/upload") on the body built from the payload in flight.
PostUpload ==
  /\ inflight # NoPayload
  /\ \E honest \in {HonestBody(inflight, PASSWD, "")}, m \in Mutations :
       /\ Applicable(honest, m)
       /\ \E mutated \in {Mutate(honest, m)},
             name \in (IF m.field = "filename" THEN {PASSWD} ELSE Filenames),
             mime \in MimeTypes(build),
             tagLengths \in TagLengthPolicies :
            \E out \in {upload([mutated EXCEPT
                                   !.filename = IF m.field = "filename" THEN @ ELSE name,
                                   !.mimeType = mime],
                                 files, privateKey, build = "js", tagLengths)} :
              /\ response' = out.response
              /\ files' = out.files
              /\ trace' = [stage |-> out.stage, privateKeyUsed |-> out.privateKeyUsed]
              /\ sent' = [payload |-> inflight, mutation |-> m,
                          filename |-> name, mimeType |-> mime, filesBefore |-> files]
  /\ inflight' = NoPayload
  /\ UNCHANGED <<build, lifetime, publicKey, privateKey>>

Next == Restart \/ GetPublicKey \/ ReadResponse \/ ClientEncrypt \/ PostUpload

Spec == Init /\ [][Next]_vars

(***************************************************************************)
(* Vocabulary of the properties.                                           *)
(***************************************************************************)
\* The response and trace in hand are those of an upload.
Answered == trace.stage \notin {"idle", "public-key"}

LastBody == BodyOf(sent)

AllFieldsPresent(body) ==
  /\ ~Falsy(body.encryptedAesKey)
  /\ ~Falsy(body.encryptedFile)
  /\ ~Falsy(body.iv)
  /\ ~FalsyName(body.filename)

\* The JavaScript build's allow-list does not stand in the way.
MimeAccepted == build = "js" => (sent.mimeType = "" \/ sent.mimeType \in allowedMimeTypes)

\* An honest payload, wrapped under the key pair the server holds now, posted
\* as built.
HonestCurrent ==
  /\ Answered
  /\ sent.mutation = NoMutation
  /\ sent.payload.pubId = publicKey.id
  /\ MimeAccepted

NoDirectoryComponent(name) == name # <<>> /\ \A i \in 1..Len(name) : name[i] # "/"

StoredAt(name) == Append(uploadsDir, name)

RoundTripResult ==
  /\ response = SuccessResponse(sent.filename, Len(sent.payload.file))
  /\ StoredAt(sent.filename) \in DOMAIN files
  /\ files[StoredAt(sent.filename)] = sent.payload.file

\* C1 (as stated): an honest payload posted under any filename without a
\* directory component is answered {success, filename, decryptedBytes = len(F)}
\* and leaves F at <uploadsDir>/<filename>.
C1_RoundTripAnyName ==
  (HonestCurrent /\ NoDirectoryComponent(sent.filename)) => RoundTripResult

\* C1 (amended): the same, for every filename without a directory component
\* other than "." and "..".
C1_RoundTrip ==
  (HonestCurrent /\ NoDirectoryComponent(sent.filename)
     /\ sent.filename \notin {<<".">>, <<".", ".">>}) => RoundTripResult

C1_Witness ==
  /\ HonestCurrent
  /\ sent.filename = PASSWD
  /\ sent.payload.file = <<1>>
  /\ response = SuccessResponse(PASSWD, 1)
  /\ StoredAt(PASSWD) \in DOMAIN files
  /\ files[StoredAt(PASSWD)] = <<1>>

(***************************************************************************)
(* The request answered last, decoded and checked again, step by step.     *)
(***************************************************************************)
DecodedKey == BufferFromBase64(LastBody.encryptedAesKey)
DecodedFile == BufferFromBase64(LastBody.encryptedFile)
DecodedIv == BufferFromBase64(LastBody.iv)

UnwrapSucceeds == privateDecrypt(privateKey, DecodedKey).ok

TagVerifies ==
  /\ UnwrapSucceeds
  /\ DecodedIv # <<>>
  /\ decipherFinal(privateDecrypt(privateKey, DecodedKey).key, DecodedIv,
                   subarray(DecodedFile, 0, Len(DecodedFile) - GCM_TAG_LENGTH),
                   subarray(DecodedFile, Len(DecodedFile) - GCM_TAG_LENGTH, Len(DecodedFile)))

\* The response of the catch block, whatever the detail.
DecryptionFailed ==
  /\ response.status = 500
  /\ response.error = "Decryption failed."
  /\ ~response.success

\* The request answered last, had it been posted as the browser built it,
\* would have been accepted.
WouldBeAccepted ==
  /\ sent.payload.pubId = publicKey.id
  /\ MimeAccepted
  /\ basename(sent.filename) \notin {<<>>, <<".">>, <<".", ".">>}

\* C2: a bit changed in encryptedFile, iv or encryptedAesKey of a payload that
\* would be accepted ends in "Decryption failed.", at the unwrap or at the tag
\* verification, never in success.
C2_TamperDetection ==
  (Answered /\ sent.mutation.kind = "flip" /\ WouldBeAccepted) =>
    (DecryptionFailed /\ trace.stage \in {"privateDecrypt", "final"})

C2_Witness ==
  /\ Answered
  /\ sent.mutation.kind = "flip"
  /\ sent.mutation.field = "iv"
  /\ WouldBeAccepted
  /\ sent.payload.file = <<1>>
  /\ DecryptionFailed
  /\ trace.stage = "final"

\* The messages err.message can carry into the detail of the catch response.
LibraryMessages ==
  {"error:02000079:rsa routines::oaep decoding error",
   "Invalid initialization vector",
   "Invalid authentication tag length",
   "Unsupported state or unable to authenticate data",
   "EISDIR: illegal operation on a directory, open",
   "ENOENT: no such file or directory, open"}

ErrorResponse == response.status \in {400, 500}

\* C3: the files change only in an upload that is answered with success, and
\* then its unwrap and its tag verification both succeeded; an upload answered
\* 400 or 500 leaves the files as it found them, and its response carries an
\* error text only.
C3_NoPartialWrites ==
  /\ [](Answered =>
          /\ (files # sent.filesBefore) => (trace.stage = "done" /\ TagVerifies)
          /\ ErrorResponse =>
                /\ files = sent.filesBefore
                /\ response.filename = <<>>
                /\ response.decryptedBytes = 0
                /\ response.detail \in LibraryMessages \cup {""})
  /\ [][(files' # files) => (trace'.stage = "done" /\ sent'.filesBefore = files)]_vars

\* A tampered body of a non-empty file is refused over files that an earlier
\* upload left.
C3_Witness ==
  /\ Answered
  /\ trace.stage = "final"
  /\ DecryptionFailed
  /\ sent.payload.file = <<1>>
  /\ StoredAt(PASSWD) \in DOMAIN files
  /\ files[StoredAt(PASSWD)] = <<0>>

\* C4: every file on disk is a direct child of the uploads directory, and a
\* successful upload reports, and has written, the base name of the filename
\* it was given.
C4_FilenameSafety ==
  /\ \A path \in DOMAIN files : Len(path) = Len(uploadsDir) + 1 /\ Parent(path) = uploadsDir
  /\ (Answered /\ response.success) =>
        /\ response.filename = basename(LastBody.filename)
        /\ NoDirectoryComponent(response.filename)
        /\ StoredAt(response.filename) \in DOMAIN files

C4_Witness ==
  /\ Answered
  /\ sent.filename = TRAVERSAL
  /\ response = SuccessResponse(PASSWD, 1)
  /\ DOMAIN files = {StoredAt(PASSWD)}

\* C5: a request with one of the four fields absent or empty is answered
\* 400 "Missing required fields." before any unwrap, decryption or write.
C5_FieldPresence ==
  (Answered /\ ~AllFieldsPresent(LastBody)) =>
    /\ response = ClientError("Missing required fields.")
    /\ trace = [stage |-> "fields", privateKeyUsed |-> 0]
    /\ files = sent.filesBefore

C5_Witness ==
  /\ Answered
  /\ sent.mutation = [kind |-> "empty", field |-> "iv", pos |-> 0, val |-> 0]
  /\ sent.payload.pubId = publicKey.id
  /\ response = ClientError("Missing required fields.")
  /\ trace.stage = "fields"

AeadStages == {"createDecipheriv", "setAuthTag", "final", "writeFileSync", "done"}

\* C6: a request whose decoded encryptedFile has fewer than GCM_TAG_LENGTH
\* bytes is answered 400 and never reaches createDecipheriv, setAuthTag or
\* final.
C6_UndersizedRejected ==
  (Answered /\ AllFieldsPresent(LastBody) /\ Len(DecodedFile) < GCM_TAG_LENGTH) =>
    (response.status = 400 /\ trace.stage \notin AeadStages)

\* The body the browser would have built for the payload answered last under
\* the key pair the server holds now, with the last byte of its tag changed.
TagTamperedBody ==
  Mutate(HonestBody([sent.payload EXCEPT !.pubId = publicKey.id], PASSWD, ""),
         [kind |-> "flip", field |-> "encryptedFile",
          pos |-> Len(sent.payload.file) + GCM_TAG_LENGTH, val |-> 0])

\* C7: the response to a request that fails at the key unwrap equals the
\* response, in the same server state, to a request that fails at the tag
\* verification.
C7_UniformFailure ==
  (Answered /\ trace.stage = "privateDecrypt") =>
    \A other \in {upload(TagTamperedBody, files, privateKey, build = "js", {GCM_TAG_LENGTH})} :
      other.stage = "final" => other.response = response

\* C8: a payload wrapped under the key pair of an earlier lifetime and posted
\* as built is answered "Decryption failed." at the unwrap, and writes no file.
C8_RestartInvalidation ==
  (Answered /\ sent.mutation = NoMutation /\ MimeAccepted /\ sent.payload.pubId < lifetime) =>
    /\ DecryptionFailed
    /\ trace.stage = "privateDecrypt"
    /\ files = sent.filesBefore

\* A payload of the first lifetime, posted after two restarts and an upload.
C8_Witness ==
  /\ Answered
  /\ sent.mutation = NoMutation
  /\ MimeAccepted
  /\ sent.payload.pubId = 1
  /\ lifetime = 3
  /\ DecryptionFailed
  /\ trace.stage = "privateDecrypt"
  /\ DOMAIN files = {StoredAt(PASSWD)}

\* C9: the key pair in hand is the one generated at the start of the running
\* process and changes only with a restart; a GET answers with its public
\* half and changes neither the key pair nor the files; every unwrap uses its
\* private half.
C9_KeyPairImmutable ==
  /\ [](/\ publicKey = generateKeyPairSync(lifetime).publicKey
        /\ privateKey = generateKeyPairSync(lifetime).privateKey
        /\ (trace.stage = "public-key" => response = PublicKeyResponse(publicKey))
        /\ ((Answered /\ trace.privateKeyUsed # 0) => trace.privateKeyUsed = publicKey.id))
  /\ [][/\ (lifetime' = lifetime => (publicKey' = publicKey /\ privateKey' = privateKey))
        /\ (trace'.stage = "public-key" =>
              (/\ publicKey' = publicKey
               /\ privateKey' = privateKey
               /\ lifetime' = lifetime
               /\ files' = files
               /\ inflight' = inflight))]_vars

\* A GET in the second lifetime, after an upload.
C9_Witness ==
  /\ trace.stage = "public-key"
  /\ lifetime = 2
  /\ response = PublicKeyResponse(generateKeyPairSync(2).publicKey)
  /\ DOMAIN files = {StoredAt(PASSWD)}

\* C10: a request with a binary field that is present but not well-formed
\* base64 is answered 400, and no unwrap is attempted.
C10_MalformedBase64Rejected ==
  (Answered /\ AllFieldsPresent(LastBody)
     /\ \E f \in BinaryFields : ~WellFormedBase64(LastBody[f])) =>
    (response.status = 400 /\ trace.privateKeyUsed = 0)

\* C11: a request whose filename is not empty but whose base name, once the
\* path components are stripped, is empty (such as "/") is answered 400 and
\* writes nothing, the cryptographic payload being as the browser built it for
\* the key pair in hand.
C11_EmptyBasenameRejected ==
  (HonestCurrent /\ sent.filename # <<>> /\ basename(sent.filename) = <<>>) =>
    (response.status = 400 /\ files = sent.filesBefore)

====
